---- MODULE Spec2Model ----
(***************************************************************************)
(* Model of test-scripts/send_test_email.py: main() parses the command     *)
(* line and calls send_email() once; send_email() builds a message, opens  *)
(* one smtplib.SMTP connection inside a with-block (timeout=10), sends the *)
(* message, prints the outcome and classifies any exception in three       *)
(* except clauses.  The SMTP server is the environment: at every exchange  *)
(* it may answer, reject, reject and hang up, hang up, or stay silent.     *)
(***************************************************************************)
EXTENDS Integers, Sequences, FiniteSets, TLC

VARIABLES pc, argv, args, msg, hist, waited, connOpen, exc, log, calls,
          propagated, exitStatus

vars == <<pc, argv, args, msg, hist, waited, connOpen, exc, log, calls,
          propagated, exitStatus>>

-----------------------------------------------------------------------------
(* Command line                                                            *)

Absent == "<absent>"

DefaultHost == "localhost"
DefaultPort == 25
DefaultFrom == "sender@example.com"
DefaultTo == "recipient@example.com"
DefaultSubject == "Test Subject Word1 Word2"
DefaultBody == "This is a test email body."

Timeout == 10

\* The command lines explored: every flag either absent or given one value;
\* --port may also be given a value that is not an integer; -h may be given.
Argv ==
  [help : BOOLEAN,
   host : {Absent, "mail.test"},
   port : {Absent, "2525", "abc"},
   from_addr : {Absent, "a@x.org"},
   to_addr : {Absent, "b@y.org"},
   subject : {Absent, "Hi"},
   body : {Absent, "Hello."}]

\* int(): the decimal strings the explored command lines carry.
IntOf(s) == CASE s = "2525" -> 2525
              [] s = "25" -> 25
              [] OTHER -> -1

IsInt(s) == s \in {"2525", "25"}

OrDefault(v, d) == IF v = Absent THEN d ELSE v

\* parser.parse_args(): "help" (prints usage, exits 0), "error" (exits 2),
\* or "ok" with the namespace in ParsedArgs.
ParseOutcome(a) ==
  IF a.help THEN "help"
  ELSE IF a.port # Absent /\ ~IsInt(a.port) THEN "error"
  ELSE "ok"

ParsedArgs(a) ==
  [host |-> OrDefault(a.host, DefaultHost),
   port |-> IF a.port = Absent THEN DefaultPort ELSE IntOf(a.port),
   from_addr |-> OrDefault(a.from_addr, DefaultFrom),
   to_addr |-> OrDefault(a.to_addr, DefaultTo),
   subject |-> OrDefault(a.subject, DefaultSubject),
   body |-> OrDefault(a.body, DefaultBody)]

NoArgs == [host |-> "", port |-> 0, from_addr |-> "", to_addr |-> "",
           subject |-> "", body |-> ""]

ParseExitStatus(o) == IF o = "help" THEN 0 ELSE 2

-----------------------------------------------------------------------------
(* Message                                                                 *)

NoMsg == [From |-> "", To |-> "", Subject |-> "", payload |-> ""]

BuildMessage(from_addr, to_addr, subject, body) ==
  [From |-> from_addr, To |-> to_addr, Subject |-> subject, payload |-> body]

-----------------------------------------------------------------------------
(* Exceptions                                                              *)

NoExc == [type |-> "none", text |-> ""]

Exc(t, s) == [type |-> t, text |-> s]

\* Base class of each exception class that can be raised here.
BaseOf(c) ==
  CASE c = "ConnectionRefusedError" -> "ConnectionError"
    [] c = "ConnectionError" -> "OSError"
    [] c = "TimeoutError" -> "OSError"
    [] c = "SMTPServerDisconnected" -> "SMTPException"
    [] c = "SMTPConnectError" -> "SMTPResponseException"
    [] c = "SMTPHeloError" -> "SMTPResponseException"
    [] c = "SMTPSenderRefused" -> "SMTPResponseException"
    [] c = "SMTPDataError" -> "SMTPResponseException"
    [] c = "SMTPRecipientsRefused" -> "SMTPException"
    [] c = "SMTPResponseException" -> "SMTPException"
    [] c = "SMTPException" -> "OSError"
    [] c = "OSError" -> "Exception"
    [] c = "Exception" -> "BaseException"
    [] OTHER -> "object"

RECURSIVE IsInstance(_, _)
IsInstance(c, cls) ==
  IF c = cls THEN TRUE
  ELSE IF c \in {"object", "none"} THEN FALSE
  ELSE IsInstance(BaseOf(c), cls)

\* Variant: the last clause catches smtplib's own exceptions only.
HandlerFor_NarrowCatch(c) ==
  IF IsInstance(c, "ConnectionRefusedError") THEN "refused"
  ELSE IF IsInstance(c, "SMTPServerDisconnected") THEN "disconnected"
  ELSE IF IsInstance(c, "SMTPException") THEN "other"
  ELSE "uncaught"

\* Variant: no generic clause at all.
HandlerFor_NoGeneric(c) ==
  IF IsInstance(c, "ConnectionRefusedError") THEN "refused"
  ELSE IF IsInstance(c, "SMTPServerDisconnected") THEN "disconnected"
  ELSE "uncaught"

\* Variant: the generic clause comes first and shadows the others.
HandlerFor_GenericFirst(c) ==
  IF IsInstance(c, "Exception") THEN "other"
  ELSE IF IsInstance(c, "ConnectionRefusedError") THEN "refused"
  ELSE IF IsInstance(c, "SMTPServerDisconnected") THEN "disconnected"
  ELSE "uncaught"

\* Variant: no clause for ConnectionRefusedError.
HandlerFor_NoRefusedClause(c) ==
  IF IsInstance(c, "SMTPServerDisconnected") THEN "disconnected"
  ELSE IF IsInstance(c, "Exception") THEN "other"
  ELSE "uncaught"

\* The except clauses of send_email, tried in order.
HandlerFor(c) ==
  IF IsInstance(c, "ConnectionRefusedError") THEN "refused"
  ELSE IF IsInstance(c, "SMTPServerDisconnected") THEN "disconnected"
  ELSE IF IsInstance(c, "Exception") THEN "other"
  ELSE "uncaught"

-----------------------------------------------------------------------------
(* Printed lines                                                           *)

AttemptLine(host, port) ==
  "Attempting to connect to " \o host \o ":" \o ToString(port) \o "..."

ConnectedLine == "Connected to server"

SendingLine == "Attempting to send message..."

SuccessLine == "\nEmail sent successfully!"

\* Variant: the echo swaps subject and body.
SuccessLines_Swapped(from_addr, to_addr, subject, body) ==
  << SuccessLine,
     "From: " \o from_addr,
     "To: " \o to_addr,
     "Subject: " \o body,
     "Body: " \o subject >>

SuccessLines(from_addr, to_addr, subject, body) ==
  << SuccessLine,
     "From: " \o from_addr,
     "To: " \o to_addr,
     "Subject: " \o subject,
     "Body: " \o body >>

RefusedLines(host, port) ==
  << "Connection refused - Is the SMTP server running on "
       \o host \o ":" \o ToString(port) \o "?" >>

DisconnectedLines(e) ==
  << "Server disconnected: " \o e.text,
     "This might happen if:",
     "1. The server doesn't accept the connection",
     "2. The server requires authentication",
     "3. The server closed the connection unexpectedly" >>

OtherLines(e) ==
  << "Failed to send email: " \o e.text,
     "Error type: " \o e.type >>

ReportLines(h, e, host, port) ==
  CASE h = "refused" -> RefusedLines(host, port)
    [] h = "disconnected" -> DisconnectedLines(e)
    [] h = "other" -> OtherLines(e)
    [] OTHER -> << >>

OutLine(line) == [ev |-> "print", text |-> line]

Event(e) == [ev |-> e, text |-> ""]

RECURSIVE OutLines(_)
OutLines(lines) ==
  IF lines = << >> THEN << >>
  ELSE << OutLine(Head(lines)) >> \o OutLines(Tail(lines))

-----------------------------------------------------------------------------
(* The server and smtplib                                                  *)

\* What the peer does with the TCP connection request.
TcpBehaviours == {"accept", "refuse", "drop"}

\* What the server does at one exchange of the SMTP dialogue: the expected
\* reply, an error reply (connection kept), an error reply followed by a
\* hang-up (421/554 style), a hang-up without reply, or no reply at all.
ServerBehaviours == {"ok", "reject", "bye", "close", "silent"}

\* The exchanges, in the order smtplib performs them.
Stages == <<"tcp", "greet", "ehlo", "mail", "rcpt", "data", "body", "quit">>

StageSet == {Stages[i] : i \in 1..Len(Stages)}

SendStages == {"ehlo", "mail", "rcpt", "data", "body"}

NoHist == [s \in StageSet |-> "-"]

NextStage(s) ==
  CASE s = "ehlo" -> "mail"
    [] s = "mail" -> "rcpt"
    [] s = "rcpt" -> "data"
    [] s = "data" -> "body"
    [] OTHER -> "done"

\* The server has hung up at an earlier exchange.
ServerGone(h) == \E s \in StageSet : h[s] \in {"bye", "close"}

\* socket.create_connection((host, port), timeout)
ConnectExc(b) ==
  CASE b = "refuse" -> Exc("ConnectionRefusedError", "[Errno 111] Connection refused")
    [] b = "drop" -> Exc("TimeoutError", "timed out")
    [] OTHER -> NoExc

\* Variant: the socket timeout of the read is not converted.
ReadExc_RawTimeout(b) ==
  CASE b = "close" -> Exc("SMTPServerDisconnected", "Connection unexpectedly closed")
    [] b = "silent" -> Exc("TimeoutError", "timed out")
    [] OTHER -> NoExc

\* SMTP.getreply(): EOF, and any OSError of the read (a socket timeout
\* included), close the socket and raise SMTPServerDisconnected.
ReadExc(b) ==
  CASE b = "close" -> Exc("SMTPServerDisconnected", "Connection unexpectedly closed")
    [] b = "silent" -> Exc("SMTPServerDisconnected", "Connection unexpectedly closed: timed out")
    [] OTHER -> NoExc

\* The exception an error reply raises at each exchange.
RefusalExc(stage, b) ==
  CASE stage = "greet" -> Exc("SMTPConnectError", "(554, b'rejected')")
    [] stage = "ehlo" ->
         IF b = "bye" THEN Exc("SMTPServerDisconnected", "Connection unexpectedly closed")
         ELSE Exc("SMTPHeloError", "(502, b'rejected')")
    [] stage = "mail" -> Exc("SMTPSenderRefused", "(550, b'rejected')")
    [] stage = "rcpt" -> Exc("SMTPRecipientsRefused", "{rcpt: (550, b'rejected')}")
    [] OTHER -> Exc("SMTPDataError", "(554, b'rejected')")

\* What SMTP.__init__ (greet) and SMTP.send_message (the other stages)
\* raise when the server behaves as b at the exchange.
ReplyExc(stage, b) ==
  IF b = "ok" THEN NoExc
  ELSE IF b \in {"close", "silent"} THEN ReadExc(b)
  ELSE RefusalExc(stage, b)

\* Whether the client socket is still open after the exchange.
OpenAfterReply(stage, b) ==
  CASE b = "ok" -> TRUE
    [] b = "reject" -> stage # "greet"
    [] b = "bye" -> stage = "data"
    [] OTHER -> FALSE

\* SMTP.__exit__: QUIT; a reply other than 221 raises
\* SMTPResponseException, SMTPServerDisconnected is swallowed.
QuitExc(pending, open, b) ==
  IF open /\ b \in {"reject", "bye"}
  THEN Exc("SMTPResponseException", "(500, b'rejected')")
  ELSE pending

\* Variant: close() only when QUIT did not raise (no finally).
OpenAfterExit_NoFinally(open, b) == open /\ b \in {"reject", "bye"}

\* SMTP.__exit__: "finally: self.close()".
OpenAfterExit(open, b) == FALSE

\* The server's possible behaviours at QUIT.
QuitBehaviours(h) == IF ServerGone(h) THEN {"close"} ELSE ServerBehaviours

-----------------------------------------------------------------------------
(* State machine                                                           *)

Init ==
  /\ pc = "main"
  /\ argv \in Argv
  /\ args = NoArgs
  /\ msg = NoMsg
  /\ hist = NoHist
  /\ waited = 0
  /\ connOpen = FALSE
  /\ exc = NoExc
  /\ log = << >>
  /\ calls = 0
  /\ propagated = FALSE
  /\ exitStatus = -1

\* main(): parser.parse_args() succeeds.
ParseOk ==
  /\ pc = "main"
  /\ ParseOutcome(argv) = "ok"
  /\ args' = ParsedArgs(argv)
  /\ pc' = "call"
  /\ UNCHANGED <<argv, msg, hist, waited, connOpen, exc, log, calls,
                 propagated, exitStatus>>

\* main(): parser.parse_args() exits the process (usage error or --help).
ParseExit ==
  /\ pc = "main"
  /\ ParseOutcome(argv) # "ok"
  /\ exitStatus' = ParseExitStatus(ParseOutcome(argv))
  /\ pc' = "exit"
  /\ UNCHANGED <<argv, args, msg, hist, waited, connOpen, exc, log, calls,
                 propagated>>

\* main() calls send_email(); send_email builds the message.
CallSendEmail ==
  /\ pc = "call"
  /\ calls' = calls + 1
  /\ msg' = BuildMessage(args.from_addr, args.to_addr, args.subject, args.body)
  /\ pc' = "try"
  /\ UNCHANGED <<argv, args, hist, waited, connOpen, exc, log, propagated,
                 exitStatus>>

\* Variant: "Connected to server" is printed before the connection is made.
Attempting_ConnectedEarly ==
  /\ pc = "try"
  /\ log' = log \o OutLines(<<AttemptLine(args.host, args.port), ConnectedLine>>)
  /\ \E b \in TcpBehaviours : hist' = [hist EXCEPT !["tcp"] = b]
  /\ pc' = "tcp"
  /\ UNCHANGED <<argv, args, msg, waited, connOpen, exc, calls, propagated,
                 exitStatus>>

\* print("Attempting to connect to ...")
Attempting ==
  /\ pc = "try"
  /\ log' = Append(log, OutLine(AttemptLine(args.host, args.port)))
  /\ \E b \in TcpBehaviours : hist' = [hist EXCEPT !["tcp"] = b]
  /\ pc' = "tcp"
  /\ UNCHANGED <<argv, args, msg, waited, connOpen, exc, calls, propagated,
                 exitStatus>>

\* A blocking socket operation waits one more second for the peer.
Wait ==
  /\ pc \in StageSet
  /\ hist[pc] \in {"drop", "silent"}
  /\ waited < Timeout
  /\ waited' = waited + 1
  /\ UNCHANGED <<pc, argv, args, msg, hist, connOpen, exc, log, calls,
                 propagated, exitStatus>>

\* The peer answers at once; a peer that does not is waited for Timeout.
Answered(b) == IF b \in {"drop", "silent"} THEN waited = Timeout ELSE waited = 0

\* smtplib.SMTP(host, port, timeout=10): the TCP connection.
Connect ==
  /\ pc = "tcp"
  /\ Answered(hist["tcp"])
  /\ waited' = 0
  /\ IF hist["tcp"] = "accept"
     THEN /\ connOpen' = TRUE
          /\ log' = log \o <<Event("connect"), Event("open")>>
          /\ \E b \in ServerBehaviours : hist' = [hist EXCEPT !["greet"] = b]
          /\ pc' = "greet"
          /\ UNCHANGED exc
     ELSE /\ exc' = ConnectExc(hist["tcp"])
          /\ log' = Append(log, Event("connect"))
          /\ pc' = "except"
          /\ UNCHANGED <<connOpen, hist>>
  /\ UNCHANGED <<argv, args, msg, calls, propagated, exitStatus>>

\* smtplib.SMTP(...): the server's greeting; on 220 the with-block is
\* entered, otherwise the constructor closes the socket and raises.
Greeting ==
  /\ pc = "greet"
  /\ Answered(hist["greet"])
  /\ waited' = 0
  /\ IF hist["greet"] = "ok"
     THEN /\ log' = Append(log, Event("established"))
          /\ pc' = "connected"
          /\ UNCHANGED <<connOpen, exc>>
     ELSE /\ exc' = ReplyExc("greet", hist["greet"])
          /\ connOpen' = OpenAfterReply("greet", hist["greet"])
          /\ log' = Append(log, Event("close"))
          /\ pc' = "except"
  /\ UNCHANGED <<argv, args, msg, hist, calls, propagated, exitStatus>>

\* server.set_debuglevel(1); print("Connected to server");
\* print("Attempting to send message...")
Connected ==
  /\ pc = "connected"
  /\ log' = log \o OutLines(<<ConnectedLine, SendingLine>>)
  /\ pc' = "send_message"
  /\ UNCHANGED <<argv, args, msg, hist, waited, connOpen, exc, calls,
                 propagated, exitStatus>>

\* server.send_message(msg) is called.
SendMessage ==
  /\ pc = "send_message"
  /\ log' = Append(log, Event("send_message"))
  /\ \E b \in ServerBehaviours : hist' = [hist EXCEPT !["ehlo"] = b]
  /\ pc' = "ehlo"
  /\ UNCHANGED <<argv, args, msg, waited, connOpen, exc, calls, propagated,
                 exitStatus>>

\* The server's possible behaviours on leaving the with-block.
EnterQuit(open, h) ==
  IF open THEN \E b \in QuitBehaviours(h) : hist' = [h EXCEPT !["quit"] = b]
  ELSE hist' = h

\* One command/reply exchange of send_message (EHLO, MAIL, RCPT, DATA, body).
Exchange ==
  /\ pc \in SendStages
  /\ Answered(hist[pc])
  /\ waited' = 0
  /\ LET b == hist[pc] IN
     IF b = "ok" /\ NextStage(pc) # "done"
     THEN /\ \E n \in ServerBehaviours :
               hist' = [hist EXCEPT ![NextStage(pc)] = n]
          /\ pc' = NextStage(pc)
          /\ UNCHANGED <<connOpen, exc, log>>
     ELSE IF b = "ok"
     THEN /\ log' = Append(log, Event("sent"))
          /\ pc' = "sent"
          /\ UNCHANGED <<connOpen, exc, hist>>
     ELSE /\ exc' = ReplyExc(pc, b)
          /\ connOpen' = OpenAfterReply(pc, b)
          /\ log' = IF OpenAfterReply(pc, b) THEN log
                    ELSE Append(log, Event("close"))
          /\ EnterQuit(OpenAfterReply(pc, b), hist)
          /\ pc' = "quit"
  /\ UNCHANGED <<argv, args, msg, calls, propagated, exitStatus>>

\* print(f"\nEmail sent successfully!") and the echo of the four fields.
Success ==
  /\ pc = "sent"
  /\ log' = log \o OutLines(SuccessLines(args.from_addr, args.to_addr,
                                          args.subject, args.body))
  /\ EnterQuit(connOpen, hist)
  /\ pc' = "quit"
  /\ UNCHANGED <<argv, args, msg, waited, connOpen, exc, calls, propagated,
                 exitStatus>>

\* Leaving the with-block: SMTP.__exit__.
ExitContext ==
  /\ pc = "quit"
  /\ IF connOpen THEN Answered(hist["quit"]) ELSE waited = 0
  /\ waited' = 0
  /\ exc' = QuitExc(exc, connOpen, hist["quit"])
  /\ connOpen' = OpenAfterExit(connOpen, hist["quit"])
  /\ log' = IF connOpen /\ ~OpenAfterExit(connOpen, hist["quit"])
            THEN log \o <<Event("quit"), Event("close")>>
            ELSE IF connOpen THEN Append(log, Event("quit"))
            ELSE log
  /\ pc' = IF QuitExc(exc, connOpen, hist["quit"]) = NoExc
           THEN "return" ELSE "except"
  /\ UNCHANGED <<argv, args, msg, hist, calls, propagated, exitStatus>>

\* Variant: a generic failure starts the attempt again.
AfterHandler_Retry(h) == IF h = "other" THEN "try" ELSE "return"

\* After an except clause send_email falls off its end and returns.
AfterHandler(h) == "return"

\* The except clauses of send_email.
Except ==
  /\ pc = "except"
  /\ LET h == HandlerFor(exc.type) IN
       /\ log' = log \o OutLines(ReportLines(h, exc, args.host, args.port))
       /\ propagated' = (h = "uncaught")
       /\ pc' = AfterHandler(h)
  /\ UNCHANGED <<argv, args, msg, hist, waited, connOpen, exc, calls,
                 exitStatus>>

\* send_email returns (or raises) to main(); the process exits.
ProcessExit ==
  /\ pc = "return"
  /\ exitStatus' = IF propagated THEN 1 ELSE 0
  /\ pc' = "exit"
  /\ UNCHANGED <<argv, args, msg, hist, waited, connOpen, exc, log, calls,
                 propagated>>

Next ==
  \/ ParseOk
  \/ ParseExit
  \/ CallSendEmail
  \/ Attempting
  \/ Wait
  \/ Connect
  \/ Greeting
  \/ Connected
  \/ SendMessage
  \/ Exchange
  \/ Success
  \/ ExitContext
  \/ Except
  \/ ProcessExit

Spec == Init /\ [][Next]_vars

-----------------------------------------------------------------------------
(* Observations on the event log                                           *)

Count(e) == Cardinality({i \in 1..Len(log) : log[i].ev = e})

Printed(line) == \E i \in 1..Len(log) : log[i] = OutLine(line)

\* seq occurs in the log as a block of consecutive entries.
Contains(seq) ==
  \E i \in 0..(Len(log) - Len(seq)) : SubSeq(log, i + 1, i + Len(seq)) = seq

\* Every exception the connect, send and close steps can raise.
Raisable ==
  {ConnectExc(b) : b \in TcpBehaviours \ {"accept"}}
    \cup {ReplyExc(st, b) : st \in {"greet"} \cup SendStages,
                            b \in ServerBehaviours \ {"ok"}}
    \cup {QuitExc(NoExc, TRUE, b) : b \in {"reject", "bye"}}

FailureKinds == {"refused", "disconnected", "other"}

\* The report of failure kind k has been printed.
ReportedAs(k) ==
  \E e \in Raisable :
     Contains(OutLines(ReportLines(k, e, args.host, args.port)))

OnlyReport(k) ==
  /\ ReportedAs(k)
  /\ \A o \in FailureKinds \ {k} : ~ReportedAs(o)

SuccessReported == Printed(SuccessLine)

Returned == pc \in {"return", "exit"} /\ calls = 1

\* The server hung up, with or without a reply, before accepting the message.
HungUpBeforeAccepting ==
  \E st \in {"greet"} \cup SendStages : hist[st] \in {"close", "bye"}

\* The server hung up without a reply before accepting the message.
ClosedWithoutReply ==
  \E st \in {"greet"} \cup SendStages : hist[st] = "close"

WellBehaved ==
  /\ hist["tcp"] = "accept"
  /\ \A st \in StageSet \ {"tcp"} : hist[st] = "ok"

-----------------------------------------------------------------------------
(* Claims                                                                  *)

\* C1: once send_email has left its try block (by return or into an except
\* clause), the connection it opened is closed, whatever step failed.
C1_ConnectionReleased ==
  pc \in {"except", "return", "exit"} => ~connOpen

\* A run that opened a connection, failed while closing it, and returned.
C1_Witness ==
  /\ pc = "return"
  /\ Count("open") = 1
  /\ hist["quit"] = "reject"
  /\ exc.type = "SMTPResponseException"

\* C2: no failure leaves send_email as an exception: whenever an exception
\* was raised by the connect, send or close step, a failure report has been
\* printed by the time send_email is left, and it is left by a normal return.
C2_NeverPropagates ==
  /\ ~propagated
  /\ (Returned /\ exc # NoExc) => \E k \in FailureKinds : ReportedAs(k)

\* A connect that timed out, caught by the generic clause.
C2_Witness ==
  /\ pc = "return"
  /\ exc.type = "TimeoutError"
  /\ ReportedAs("other")

\* C3 (as stated): every run of main() ends in exit status 0.
C3_AlwaysExitsZero == pc = "exit" => exitStatus = 0

\* C3 (amended): a run whose command line argparse accepts ends in exit
\* status 0 whatever the send outcome; a rejected command line ends in
\* status 2 before send_email is called.
C3_ExitsZeroOnceParsed ==
  pc = "exit" =>
    IF ParseOutcome(argv) = "error"
    THEN exitStatus = 2 /\ calls = 0
    ELSE exitStatus = 0

\* A failed send that still exits 0.
C3_Witness ==
  /\ pc = "exit"
  /\ exitStatus = 0
  /\ OnlyReport("disconnected")

NetActions == Count("connect") + Count("send_message")

\* C4 (as stated): at most one connection attempt and one transmission
\* attempt, main calls send_email exactly once, and nothing is attempted
\* after a failure.
C4_NoRetriesExactlyOneCall ==
  [][/\ Count("connect")' <= 1
     /\ Count("send_message")' <= 1
     /\ calls' <= 1
     /\ pc' = "exit" => calls' = 1
     /\ exc # NoExc => NetActions' = NetActions]_vars

\* C4 (amended): at most one connection attempt and one transmission
\* attempt, main calls send_email at most once and exactly once when the
\* command line parses, and nothing is attempted after a failure.
C4_NoRetries ==
  [][/\ Count("connect")' <= 1
     /\ Count("send_message")' <= 1
     /\ calls' <= 1
     /\ pc' = "exit" => (calls' = 1 <=> ParseOutcome(argv) = "ok")
     /\ exc # NoExc => NetActions' = NetActions]_vars

\* A run that failed during the transmission and went on to exit.
C4_Witness ==
  /\ pc = "exit"
  /\ calls = 1
  /\ Count("connect") = 1
  /\ Count("send_message") = 1
  /\ ReportedAs("other")

\* C5 (as stated): a server that accepts the connection and never answers
\* makes the run end with the Other report and no other.
C5_SilentIsOther ==
  (pc = "exit" /\ hist["greet"] = "silent") => OnlyReport("other")

\* C5 (amended): no socket operation waits longer than the timeout; when
\* the read of the greeting has waited that long the only step left is the
\* one that raises; and a finished run against a server that accepted the
\* connection and never answered has printed the ServerDisconnected report
\* and no other.
C5_SilentIsDisconnected ==
  /\ waited <= Timeout
  /\ (pc = "greet" /\ hist["greet"] = "silent" /\ waited = Timeout) =>
        ENABLED Greeting /\ ~ENABLED Wait
  /\ (Returned /\ hist["greet"] = "silent") =>
        OnlyReport("disconnected") /\ ~propagated

\* The read of the greeting waited out the whole timeout and the run ended.
C5_Witness ==
  /\ pc = "exit"
  /\ hist["greet"] = "silent"
  /\ exc.text = "Connection unexpectedly closed: timed out"
  /\ ReportedAs("disconnected")

C7_RefusedReported ==
  (Returned /\ hist["tcp"] = "refuse") =>
     /\ OnlyReport("refused")
     /\ (argv.host = Absent /\ argv.port = Absent) =>
          Printed("Connection refused - Is the SMTP server running on localhost:25?")
     /\ ~Printed(ConnectedLine)
     /\ ~Printed(SendingLine)
     /\ ~SuccessReported
     /\ Count("send_message") = 0
     /\ ~propagated
     /\ pc = "exit" => exitStatus = 0

\* Default arguments, nothing listening, the run has exited.
C7_Witness ==
  /\ pc = "exit"
  /\ hist["tcp"] = "refuse"
  /\ args.host = "localhost"
  /\ args.port = 25
  /\ ReportedAs("refused")

\* C8: against a well-behaved server a finished invocation has made one
\* connection and one transmission, and has printed the success line
\* followed by the supplied from, to, subject and body, unchanged, and no
\* failure report.
C8_SuccessEchoesArguments ==
  (Returned /\ WellBehaved) =>
     /\ Count("connect") = 1
     /\ Count("open") = 1
     /\ Count("send_message") = 1
     /\ Count("sent") = 1
     /\ Contains(<< OutLine("\nEmail sent successfully!"),
                    OutLine("From: " \o OrDefault(argv.from_addr, DefaultFrom)),
                    OutLine("To: " \o OrDefault(argv.to_addr, DefaultTo)),
                    OutLine("Subject: " \o OrDefault(argv.subject, DefaultSubject)),
                    OutLine("Body: " \o OrDefault(argv.body, DefaultBody)) >>)
     /\ \A k \in FailureKinds : ~ReportedAs(k)

\* A successful run with a subject and a body given on the command line.
C8_Witness ==
  /\ pc = "exit"
  /\ WellBehaved
  /\ argv.subject = "Hi"
  /\ argv.body = "Hello."
  /\ Printed("Subject: Hi")
  /\ Printed("Body: Hello.")

\* C9: a finished invocation has reported exactly one outcome: the success
\* output or one of the three failure reports, never two of them.
C9_ExactlyOneOutcome ==
  Returned =>
    Cardinality({k \in FailureKinds : ReportedAs(k)}
                  \cup (IF SuccessReported THEN {"success"} ELSE {})) = 1

Before(i, P(_)) == \E j \in 1..(i - 1) : P(log[j])

IsAttemptLine(x) == x = OutLine(AttemptLine(args.host, args.port))

IsEstablished(x) == x.ev = "established"

IsSent(x) == x.ev = "sent"

IsClose(x) == x.ev = "close"

====
